---------------------------- MODULE Spec2Model ----------------------------
(***************************************************************************)
(* Model of src/models.py: the settings classes (ObjectDetection, Tracker, *)
(* NMEA, AppSettings, SystemSettings) and the two file operations of       *)
(* SettingsMixin, update and load_with_overrides.                          *)
(*                                                                         *)
(* Values.  Python and JSON values are tagged tuples:                      *)
(*   <<"int", n>>         an int                                           *)
(*   <<"float", t>>       a float, t counted in tenths (0.5 is 5)          *)
(*   <<"str", s>>         a str                                            *)
(*   <<"enum", s>>        the CNNNetwork member whose value is s           *)
(*   <<"dict", pairs>>    a dict, pairs a sequence of <<key, value>> in    *)
(*                        insertion order                                  *)
(*   <<"model", c, pairs>> an instance of the BaseModel class c, pairs its *)
(*                        fields in declaration order                      *)
(*   <<"method", name>>   a bound method or other class attribute          *)
(* A file is <<"missing">>, <<"malformed">> (text that is not JSON) or     *)
(* <<"json", layout, tree>>: JSON text of the given layout for tree.       *)
(***************************************************************************)
EXTENDS Integers, Sequences, FiniteSets, TLC

\* Largest number of keys, counted over all nesting levels, of a file drawn in Init.
MaxKeys == 2


IntV(n) == <<"int", n>>
FloatV(t) == <<"float", t>>
StrV(s) == <<"str", s>>
EnumV(s) == <<"enum", s>>
Dict(pairs) == <<"dict", pairs>>
Model(c, pairs) == <<"model", c, pairs>>
Method(name) == <<"method", name>>

IsDict(v) == v[1] = "dict"
IsModel(v) == v[1] = "model"

Keys(pairs) == {pairs[i][1] : i \in DOMAIN pairs}
Lookup(pairs, k) == pairs[CHOOSE i \in DOMAIN pairs : pairs[i][1] = k][2]
Store(pairs, k, v) ==
    IF k \in Keys(pairs)
    THEN [i \in DOMAIN pairs |-> IF pairs[i][1] = k THEN <<k, v>> ELSE pairs[i]]
    ELSE Append(pairs, <<k, v>>)

(***************************************************************************)
(* The classes.                                                            *)
(***************************************************************************)
CNNNetwork == {"DAN", "AHOY", "YOLO", "CERULEAN"}

\* json_schema_extra: a dict, or None (modelled as the empty dict: both are falsy).
NoExtra == <<>>
Updatable(b) == <<<<"updatable", b>>>>

Ge(n) == [op |-> "ge", n |-> n]
Le(n) == [op |-> "le", n |-> n]

FieldInfo(name, annotation, default, metadata, extra) ==
    [name |-> name, annotation |-> annotation, default |-> default,
     metadata |-> metadata, json_schema_extra |-> extra]

ObjectDetection ==
    << FieldInfo("cnn_network", "CNNNetwork", EnumV("DAN"), {}, Updatable(TRUE)),
       FieldInfo("min_object_size", "int", IntV(6), {Ge(0)}, Updatable(TRUE)),
       FieldInfo("cnn_confidence_threshold", "float", FloatV(5), {Ge(0), Le(1)}, Updatable(TRUE)) >>

Tracker ==
    << FieldInfo("count_min_seen", "int", IntV(10), {Ge(0)}, Updatable(TRUE)),
       FieldInfo("count_max_unseen", "int", IntV(20), {Ge(0)}, Updatable(TRUE)) >>

NMEA ==
    << FieldInfo("ip_address", "str", StrV("127.0.0.1"), {}, Updatable(FALSE)),
       FieldInfo("port", "int", IntV(8080), {Ge(0)}, Updatable(FALSE)) >>

\* The group fields use default_factory; the default is built by Construct below.
AppSettings ==
    << FieldInfo("object_detection", "ObjectDetection", <<"factory">>, {}, NoExtra),
       FieldInfo("tracker", "Tracker", <<"factory">>, {}, NoExtra) >>

SystemSettings ==
    << FieldInfo("nmea", "NMEA", <<"factory">>, {}, NoExtra) >>

ModelClasses == {"ObjectDetection", "Tracker", "NMEA", "AppSettings", "SystemSettings"}
RootClasses == {"AppSettings", "SystemSettings"}

model_fields(c) ==
    CASE c = "ObjectDetection" -> ObjectDetection
      [] c = "Tracker" -> Tracker
      [] c = "NMEA" -> NMEA
      [] c = "AppSettings" -> AppSettings
      [] c = "SystemSettings" -> SystemSettings

FieldNames(c) == {model_fields(c)[i].name : i \in DOMAIN model_fields(c)}
Field(c, k) == model_fields(c)[CHOOSE i \in DOMAIN model_fields(c) : model_fields(c)[i].name = k]


IsModelClass(a) == a \in ModelClasses

\* The instance of all defaults: every field takes its default; a default_factory
\* field is constructed in turn.
RECURSIVE Defaults(_)
Defaults(c) ==
    Model(c, [i \in DOMAIN model_fields(c) |->
        LET f == model_fields(c)[i] IN
        <<f.name, IF IsModelClass(f.annotation) THEN Defaults(f.annotation) ELSE f.default>>])

DefaultInstance == [c \in ModelClasses |-> Defaults(c)]

\* cls()
Construct(c) == DefaultInstance[c]

\* Attributes every BaseModel instance has besides its fields (the ones the source uses).
BaseModelAttrs == {"model_dump", "model_fields", "model_validate", "model_json_schema"}

hasattr(m, k) == k \in Keys(m[3]) \/ k \in BaseModelAttrs

\* getattr reading the class's default instead of the instance's value.
getattr_Default(m, k) ==
    IF k \in Keys(m[3]) THEN Lookup(Construct(m[2])[3], k) ELSE Method(k)

getattr(m, k) == IF k \in Keys(m[3]) THEN Lookup(m[3], k) ELSE Method(k)

\* The test without the look at the flag's value.
MayOverwrite_AnyMetadata(c, k) ==
    /\ k \in FieldNames(c)
    /\ Field(c, k).json_schema_extra # <<>>

\* The test passing whatever is not marked updatable: False.
MayOverwrite_UnlessMarked(c, k) ==
    \/ k \notin FieldNames(c)
    \/ Field(c, k).json_schema_extra = <<>>
    \/ "updatable" \notin Keys(Field(c, k).json_schema_extra)
    \/ Lookup(Field(c, k).json_schema_extra, "updatable")

\* The test of line 53: field and field.json_schema_extra and
\* field.json_schema_extra.get('updatable', True).
MayOverwrite(c, k) ==
    /\ k \in FieldNames(c)
    /\ Field(c, k).json_schema_extra # <<>>
    /\ IF "updatable" \in Keys(Field(c, k).json_schema_extra)
       THEN Lookup(Field(c, k).json_schema_extra, "updatable")
       ELSE TRUE

(***************************************************************************)
(* The inner function update(d, m) of SettingsMixin.update: the walk over  *)
(* d.items() from entry i on.  d is the dict's pairs, m the model; the     *)
(* result is the dict as the walk leaves it and the number of lines        *)
(* printed.                                                                *)
(***************************************************************************)
RECURSIVE walk(_, _, _)
walk(d, m, i) ==
    IF i > Len(d) THEN [d |-> d, printed |-> 0]
    ELSE
      LET k == d[i][1]
          v == d[i][2]
      IN
      IF ~hasattr(m, k) THEN walk(d, m, i + 1)
      ELSE
        LET val == getattr(m, k) IN
        IF IsDict(v) /\ IsModel(val)
        THEN LET sub == walk(v[2], val, 1)
                 rest == walk([d EXCEPT ![i] = <<k, Dict(sub.d)>>], m, i + 1)
             IN [d |-> rest.d, printed |-> sub.printed + rest.printed]
        ELSE IF MayOverwrite(m[2], k)
        THEN walk([d EXCEPT ![i] = <<k, val>>], m, i + 1)
        ELSE LET rest == walk(d, m, i + 1)
             IN [d |-> rest.d, printed |-> rest.printed + 1]

(***************************************************************************)
(* json.  A file of JSON text is <<"json", layout, tree>>.                 *)
(***************************************************************************)
Missing == <<"missing">>
Malformed == <<"malformed">>
Text(layout, tree) == <<"json", layout, tree>>

\* json.dumps accepts int, float, str (a str-valued Enum member is a str) and dict.
RECURSIVE Serializable(_)
Serializable(v) ==
    CASE v[1] \in {"int", "float", "str", "enum"} -> TRUE
      [] v[1] = "dict" -> \A i \in DOMAIN v[2] : Serializable(v[2][i][2])
      [] OTHER -> FALSE

\* What the text written by json.dumps denotes: a CNNNetwork member is written as
\* its string value.
RECURSIVE Written(_)
Written(v) ==
    CASE v[1] = "enum" -> StrV(v[2])
      [] v[1] = "dict" -> Dict([i \in DOMAIN v[2] |-> <<v[2][i][1], Written(v[2][i][2])>>])
      [] OTHER -> v

\* dumps wrapping the tree under a name, as __repr__ does.
dumps_Wrapped(v) == Text("indent2", Dict(<<<<"settings", Written(v)>>>>))

dumps(v) == Text("indent2", Written(v))

loads(text) == text[3]

\* update taking a missing file for an empty object and writing it.
update_CreatesMissing(self, file) ==
    IF file = Missing
    THEN [raised |-> "none", file |-> dumps(Dict(<<>>)), printed |-> 0, writes |-> 1]
    ELSE IF file = Malformed
    THEN [raised |-> "JSONDecodeError", file |-> file, printed |-> 0, writes |-> 0]
    ELSE
      LET data == loads(file) IN
      IF ~IsDict(data)
      THEN [raised |-> "AttributeError", file |-> file, printed |-> 0, writes |-> 0]
      ELSE
        LET w == walk(data[2], self, 1) IN
        IF ~Serializable(Dict(w.d))
        THEN [raised |-> "TypeError", file |-> file, printed |-> w.printed, writes |-> 0]
        ELSE [raised |-> "none", file |-> dumps(Dict(w.d)), printed |-> w.printed, writes |-> 1]

(***************************************************************************)
(* SettingsMixin.update(self, json_path) on the file `file`: the exception *)
(* raised ("none" when the call returns), the file afterwards, the number  *)
(* of lines printed and the number of write_text calls.                    *)
(***************************************************************************)
update(self, file) ==
    IF file = Missing
    THEN [raised |-> "FileNotFoundError", file |-> file, printed |-> 0, writes |-> 0]
    ELSE IF file = Malformed
    THEN [raised |-> "JSONDecodeError", file |-> file, printed |-> 0, writes |-> 0]
    ELSE
      LET data == loads(file) IN
      IF ~IsDict(data)
      THEN [raised |-> "AttributeError", file |-> file, printed |-> 0, writes |-> 0]
      ELSE
        LET w == walk(data[2], self, 1) IN
        IF ~Serializable(Dict(w.d))
        THEN [raised |-> "TypeError", file |-> file, printed |-> w.printed, writes |-> 0]
        ELSE [raised |-> "none", file |-> dumps(Dict(w.d)), printed |-> w.printed, writes |-> 1]

(***************************************************************************)
(* load_with_overrides: model_dump, always_merger.merge, model_validate.   *)
(***************************************************************************)
\* instance.model_dump(): nested models become dicts, an Enum member stays a member.
RECURSIVE model_dump(_)
model_dump(m) ==
    Dict([i \in DOMAIN m[3] |->
        <<m[3][i][1], IF IsModel(m[3][i][2]) THEN model_dump(m[3][i][2]) ELSE m[3][i][2]>>])

\* always_merger.merge(base, nxt): two dicts are merged key by key, keys new to base
\* are appended; anything else is overridden by nxt.
RECURSIVE merge(_, _)
RECURSIVE merge_into(_, _, _)
merge_into(base, nxt, i) ==
    IF i > Len(nxt) THEN base
    ELSE LET k == nxt[i][1]
             v == nxt[i][2]
         IN merge_into(Store(base, k, IF k \in Keys(base) THEN merge(Lookup(base, k), v) ELSE v),
                       nxt, i + 1)
\* merge keeping base where the two are not both dicts.
merge_KeepBase(base, nxt) ==
    IF IsDict(base) /\ IsDict(nxt) THEN Dict(merge_into(base[2], nxt[2], 1)) ELSE base

merge(base, nxt) ==
    IF IsDict(base) /\ IsDict(nxt) THEN Dict(merge_into(base[2], nxt[2], 1)) ELSE nxt

ValidationError == <<"ValidationError">>

\* Strings of digits, which the int and float validators accept.
IsNumericStr(s) == s \in {"0", "1", "12"}
IntOfStr(s) == CASE s = "0" -> 0 [] s = "1" -> 1 [] s = "12" -> 12

\* The metadata ignored.
Constrained_Ignored(metadata, t) == TRUE

\* A number in tenths against the field's ge/le metadata.
Constrained(metadata, t) ==
    \A c \in metadata : IF c.op = "ge" THEN t >= 10 * c.n ELSE t <= 10 * c.n

\* The validators of the scalar annotations (pydantic's default, lax, mode).
validate_scalar(f, v) ==
    CASE f.annotation = "int" ->
           LET n == CASE v[1] = "int" -> <<TRUE, v[2]>>
                      [] v[1] = "float" -> <<v[2] % 10 = 0, v[2] \div 10>>
                      [] v[1] \in {"str", "enum"} ->
                           IF IsNumericStr(v[2]) THEN <<TRUE, IntOfStr(v[2])>> ELSE <<FALSE, 0>>
                      [] OTHER -> <<FALSE, 0>>
           IN IF n[1] /\ Constrained(f.metadata, 10 * n[2]) THEN IntV(n[2]) ELSE ValidationError
      [] f.annotation = "float" ->
           LET t == CASE v[1] = "int" -> <<TRUE, 10 * v[2]>>
                      [] v[1] = "float" -> <<TRUE, v[2]>>
                      [] v[1] \in {"str", "enum"} ->
                           IF IsNumericStr(v[2]) THEN <<TRUE, 10 * IntOfStr(v[2])>> ELSE <<FALSE, 0>>
                      [] OTHER -> <<FALSE, 0>>
           IN IF t[1] /\ Constrained(f.metadata, t[2]) THEN FloatV(t[2]) ELSE ValidationError
      [] f.annotation = "str" ->
           IF v[1] \in {"str", "enum"} THEN StrV(v[2]) ELSE ValidationError
      [] f.annotation = "CNNNetwork" ->
           IF v[1] \in {"str", "enum"} /\ v[2] \in CNNNetwork THEN EnumV(v[2]) ELSE ValidationError

\* cls.model_validate(tree): fields in declaration order, a missing key takes the
\* default, keys that name no field are ignored.
RECURSIVE model_validate(_, _)
model_validate(c, tree) ==
    IF IsModel(tree) THEN (IF tree[2] = c THEN tree ELSE ValidationError)
    ELSE IF ~IsDict(tree) THEN ValidationError
    ELSE
      LET fields == model_fields(c)
          values == [i \in DOMAIN fields |->
              LET f == fields[i] IN
              IF f.name \notin Keys(tree[2])
              THEN (IF IsModelClass(f.annotation) THEN Construct(f.annotation) ELSE f.default)
              ELSE IF IsModelClass(f.annotation)
              THEN model_validate(f.annotation, Lookup(tree[2], f.name))
              ELSE validate_scalar(f, Lookup(tree[2], f.name))]
      IN IF \E i \in DOMAIN fields : values[i] = ValidationError
         THEN ValidationError
         ELSE Model(c, [i \in DOMAIN fields |-> <<fields[i].name, values[i]>>])

DefaultUserFile(c) ==
    CASE c = "AppSettings" -> "AppSettings.user.json"
      [] c = "SystemSettings" -> "SystemSettings.user.json"

\* The omitted argument (None) and the empty string are both falsy.
NoneArg == "None"
\* The argument ignored.
ResolveUserFile_AlwaysDefault(c, user_file) == DefaultUserFile(c)

ResolveUserFile(c, user_file) ==
    IF user_file \in {NoneArg, ""} THEN DefaultUserFile(c) ELSE user_file

\* cls.load_with_overrides(user_file) on the file found at the resolved path: the
\* exception raised ("none" when the call returns) and the instance returned.
load_with_overrides(c, file) ==
    LET instance == Construct(c) IN
    IF file = Missing THEN [raised |-> "none", ret |-> instance]
    ELSE IF file = Malformed THEN [raised |-> "JSONDecodeError", ret |-> <<"nothing">>]
    ELSE
      LET overrides == loads(file)
          merged_data == merge(model_dump(instance), overrides)
          validated == model_validate(c, merged_data)
      IN IF validated = ValidationError
         THEN [raised |-> "ValidationError", ret |-> <<"nothing">>]
         ELSE [raised |-> "none", ret |-> validated]

(***************************************************************************)
(* The inputs: the files found on disk.                                    *)
(***************************************************************************)
Scalars == {IntV(-1), IntV(1), StrV("YOLO"), StrV("12")}

\* Keys a file may use besides the fields: one that names nothing in the model
\* and one that names a method of every model.
OtherKeys == {"legacy", "model_dump"}

KeysAt(c, depth) ==
    CASE depth = 1 -> FieldNames(c) \cup OtherKeys
      [] depth = 2 -> UNION {FieldNames(model_fields(c)[i].annotation) : i \in DOMAIN model_fields(c)}
                        \cup OtherKeys
      [] OTHER -> {"legacy"}

RECURSIVE Size(_)
RECURSIVE SizeFrom(_, _)
SizeFrom(pairs, i) ==
    IF i > Len(pairs) THEN 0 ELSE 1 + Size(pairs[i][2]) + SizeFrom(pairs, i + 1)
Size(v) == IF IsDict(v) THEN SizeFrom(v[2], 1) ELSE 0

\* The dicts (as pairs, keys distinct) of at most n keys whose top level is at depth.
RECURSIVE DictsOf(_, _, _)
DictsOf(c, depth, n) ==
    IF n = 0 THEN {<<>>}
    ELSE {<<>>} \cup UNION {
           { <<<<k, v>>>> \o r : r \in {r \in DictsOf(c, depth, n - 1 - Size(v)) : k \notin Keys(r)} }
           : k \in KeysAt(c, depth),
             v \in Scalars \cup {Dict(x) : x \in DictsOf(c, depth + 1, n - 1)} }

\* The files: absent, not JSON, JSON that is no object, or an object of at most
\* MaxKeys keys, laid out as whoever wrote it chose.
Files(c) ==
    {Missing, Malformed, Text("compact", IntV(1))}
      \cup {Text("compact", Dict(x)) : x \in DictsOf(c, 1, MaxKeys)}

Paths(c) == {"user.json", DefaultUserFile(c)}
AllPaths == {"user.json"} \cup {DefaultUserFile(c) : c \in RootClasses}

\* The instances a program can hold: what load_with_overrides returns on some file.
Instances(c) ==
    {load_with_overrides(c, f).ret : f \in {g \in Files(c) : load_with_overrides(c, g).raised = "none"}}

(***************************************************************************)
(* The state.                                                              *)
(***************************************************************************)
VARIABLES
    cls,        \* the Settings Root class the program uses
    instance,   \* the instance the program holds
    fs,         \* the file at each path
    last        \* the last call: its operation, its argument, the path it resolved, the
                \* file there before the call, the exception raised, the lines printed,
                \* the write_text calls made, and whether it repeats an update of the
                \* same path ("changed"/"unchanged": what that earlier update did to
                \* the file)

vars == <<cls, instance, fs, last>>

NoCall ==
    [op |-> "none", arg |-> "", path |-> "", before |-> Missing,
     raised |-> "none", printed |-> 0, writes |-> 0, repeats |-> "no"]

Init ==
    /\ cls \in RootClasses
    /\ instance \in Instances(cls)
    /\ \E f \in Files(cls) :
          fs = [q \in AllPaths |-> IF q = DefaultUserFile(cls) THEN f ELSE Missing]
    /\ last = NoCall

\* instance.update(json_path)
Update(json_path) ==
    LET r == update(instance, fs[json_path]) IN
    /\ fs' = [fs EXCEPT ![json_path] = r.file]
    /\ last' = [op |-> "update", arg |-> json_path, path |-> json_path,
                before |-> fs[json_path],
                raised |-> r.raised, printed |-> r.printed, writes |-> r.writes,
                repeats |-> IF last.op = "update" /\ last.path = json_path
                            THEN (IF fs[json_path] # last.before THEN "changed" ELSE "unchanged")
                            ELSE "no"]
    /\ UNCHANGED <<cls, instance>>

\* instance = cls.load_with_overrides(user_file); a raised error leaves the
\* program's instance as it was.
LoadWithOverrides(user_file) ==
    LET path == ResolveUserFile(cls, user_file)
        r == load_with_overrides(cls, fs[path])
    IN
    /\ instance' = IF r.raised = "none" THEN r.ret ELSE instance
    /\ last' = [op |-> "load", arg |-> user_file, path |-> path,
                before |-> fs[path],
                raised |-> r.raised, printed |-> 0, writes |-> 0, repeats |-> "no"]
    /\ UNCHANGED <<cls, fs>>

Next ==
    \/ \E json_path \in Paths(cls) : Update(json_path)
    \/ \E user_file \in {NoneArg, ""} \cup Paths(cls) : LoadWithOverrides(user_file)

Spec == Init /\ [][Next]_vars

(***************************************************************************)
(* Vocabulary of the properties.                                           *)
(***************************************************************************)
Absent == <<"absent">>

Tenths(v) == IF v[1] = "int" THEN 10 * v[2] ELSE v[2]

\* Python's ==: numbers by value, a CNNNetwork member equals its string value.
PyEq(a, b) ==
    CASE a[1] \in {"int", "float"} /\ b[1] \in {"int", "float"} -> Tenths(a) = Tenths(b)
      [] a[1] \in {"str", "enum"} /\ b[1] \in {"str", "enum"} -> a[2] = b[2]
      [] OTHER -> a = b

IsJsonObject(file) == file[1] = "json" /\ IsDict(file[3])

\* The last call was an update that read a JSON object and so walked it.
Walked == last.op = "update" /\ IsJsonObject(last.before)
Before == last.before[3]
After == fs[last.path][3]

\* The levels of the file the walk reaches: the top level (<<>>) and the object
\* under each key that names a nested model (<<g>>).
ReachedLevels ==
    {<<>>} \cup {<<g>> : g \in {h \in FieldNames(cls) \cap Keys(Before[2]) :
                                   IsDict(Lookup(Before[2], h)) /\ IsModelClass(Field(cls, h).annotation)}}
ClassAt(p) == IF p = <<>> THEN cls ELSE Field(cls, p[1]).annotation
ModelAt(p) == IF p = <<>> THEN instance ELSE Lookup(instance[3], p[1])
KeysIn(tree, p) ==
    IF p = <<>> THEN Keys(tree[2])
    ELSE IF p[1] \in Keys(tree[2]) /\ IsDict(Lookup(tree[2], p[1]))
    THEN Keys(Lookup(tree[2], p[1])[2])
    ELSE {}
ValueAt(tree, p, k) ==
    IF k \notin KeysIn(tree, p) THEN Absent
    ELSE IF p = <<>> THEN Lookup(tree[2], k)
    ELSE Lookup(Lookup(tree[2], p[1])[2], k)

Marked(c, k, b) ==
    /\ k \in FieldNames(c)
    /\ "updatable" \in Keys(Field(c, k).json_schema_extra)
    /\ Lookup(Field(c, k).json_schema_extra, "updatable") = b

\* The value in the file after the call is the value before it.
Kept(p, k) == fs[last.path][1] = "json" /\ ValueAt(After, p, k) = ValueAt(Before, p, k)

\* The value in the file after the call is the instance's value.
Synced(p, k) ==
    /\ fs[last.path][1] = "json"
    /\ ValueAt(After, p, k) # Absent
    /\ PyEq(ValueAt(After, p, k), Lookup(ModelAt(p)[3], k))

(***************************************************************************)
(* C1.  Update never changes, in the target file, the value of a field     *)
(* marked not updatable (NMEA.ip_address, NMEA.port), whatever the         *)
(* instance holds for it; this holds after every sequence of calls.        *)
(***************************************************************************)
C1_ProtectedKept ==
    Walked =>
      \A p \in ReachedLevels : \A k \in KeysIn(Before, p) :
          Marked(ClassAt(p), k, FALSE) => Kept(p, k)

\* An update returned on a file whose nmea.port differs from the instance's port.
C1_Witness ==
    /\ Walked /\ last.raised = "none"
    /\ <<"nmea">> \in ReachedLevels
    /\ "port" \in KeysIn(Before, <<"nmea">>)
    /\ ~PyEq(ValueAt(Before, <<"nmea">>, "port"), Lookup(ModelAt(<<"nmea">>)[3], "port"))

(***************************************************************************)
(* C3.  After Update, every key of the file at a level the walk reaches    *)
(* that names a field marked updatable holds the instance's current value  *)
(* of that field, whatever (scalar or object) the file held before.        *)
(***************************************************************************)
C3_UpdatableSynced ==
    Walked =>
      \A p \in ReachedLevels : \A k \in KeysIn(Before, p) :
          Marked(ClassAt(p), k, TRUE) => Synced(p, k)

\* An update replaced an object stored under an updatable field's key.
C3_Witness ==
    /\ Walked /\ last.raised = "none"
    /\ \E p \in ReachedLevels : \E k \in KeysIn(Before, p) :
          /\ Marked(ClassAt(p), k, TRUE)
          /\ IsDict(ValueAt(Before, p, k))
          /\ ~IsDict(ValueAt(After, p, k))

(***************************************************************************)
(* C4.  Update is idempotent on the file: a second Update of the same path *)
(* right after a first one, the instance being the same, leaves the file   *)
(* exactly as the first call left it.                                      *)
(***************************************************************************)
C4_Idempotent ==
    (last.op = "update" /\ last.repeats # "no") => fs[last.path] = last.before

\* A second update ran right after one that had changed the file.
C4_Witness ==
    last.op = "update" /\ last.repeats = "changed" /\ last.raised = "none"

(***************************************************************************)
(* C5.  A key of the file, at any level the walk reaches, that is not a    *)
(* field of the model object there does not make Update fail, and its      *)
(* value after the call is its value before.                               *)
(***************************************************************************)
C5_UnknownKeyKept ==
    Walked =>
      \A p \in ReachedLevels : \A k \in KeysIn(Before, p) :
          k \notin FieldNames(ClassAt(p)) => last.raised = "none" /\ Kept(p, k)

\* An update walked a nested object holding a key that names a method, not a field.
C5_Witness ==
    /\ Walked
    /\ \E p \in ReachedLevels : p # <<>> /\ "model_dump" \in KeysIn(Before, p)

(***************************************************************************)
(* C6.  A failed Update leaves the file as it was: a missing file raises   *)
(* and is not created, malformed JSON raises a parse error and is kept.    *)
(* The file is written once, and only by a call that returns.              *)
(***************************************************************************)
C6_FailureKeepsFile ==
    last.op = "update" =>
      /\ last.raised # "none" => fs[last.path] = last.before /\ last.writes = 0
      /\ last.before = Missing => last.raised = "FileNotFoundError" /\ fs[last.path] = Missing
      /\ last.before = Malformed => last.raised = "JSONDecodeError"
      /\ last.raised = "none" => last.writes = 1

\* An update was attempted on a path where no file exists.
C6_Witness ==
    last.op = "update" /\ last.before = Missing /\ last.raised = "FileNotFoundError"


(***************************************************************************)
(* Vocabulary of the load properties.                                      *)
(***************************************************************************)
\* The last call was a load that read JSON text.
Loaded == last.op = "load" /\ last.before[1] = "json"
Overrides == last.before[3]

Groups == {g \in FieldNames(cls) : IsModelClass(Field(cls, g).annotation)}
GroupClass(g) == Field(cls, g).annotation

\* What the overrides give for field k of group g, Absent if nothing.
Given(g, k) == IF IsDict(Overrides) THEN ValueAt(Overrides, <<g>>, k) ELSE Absent

\* The value of the merged tree for field k of group g: the override's if it
\* gives one, the default otherwise.
MergedValue(g, k) ==
    IF Given(g, k) # Absent THEN Given(g, k) ELSE Field(GroupClass(g), k).default

InRange(f, v) ==
    \A c \in f.metadata : IF c.op = "ge" THEN Tenths(v) >= 10 * c.n ELSE Tenths(v) <= 10 * c.n

\* v is a value of the field's declared type (in the merged tree a default
\* cnn_network is the CNNNetwork member itself).
OfDeclaredType(f, v) ==
    CASE f.annotation = "int" -> v[1] = "int"
      [] f.annotation = "float" -> v[1] \in {"int", "float"}
      [] f.annotation = "str" -> v[1] = "str"
      [] f.annotation = "CNNNetwork" -> v[1] \in {"str", "enum"}

\* v is a value the field's schema allows.
WithinSchema(f, v) ==
    /\ OfDeclaredType(f, v)
    /\ f.annotation \in {"int", "float"} => InRange(f, v)
    /\ f.annotation = "CNNNetwork" => v[2] \in CNNNetwork

\* The override document mirrors part of the Settings Root: an object whose keys
\* are groups holding objects whose keys are fields with values the schema allows.
PartialMirror ==
    /\ IsDict(Overrides)
    /\ \A g \in Keys(Overrides[2]) :
          /\ g \in Groups
          /\ IsDict(Lookup(Overrides[2], g))
          /\ \A k \in KeysIn(Overrides, <<g>>) :
                k \in FieldNames(GroupClass(g)) /\ WithinSchema(Field(GroupClass(g), k), Given(g, k))

FieldOf(g, k) == Lookup(Lookup(instance[3], g)[3], k)

\* The instance holds, in every field, a value of the declared Python type within
\* the declared range.
InstanceValid ==
    \A g \in Groups : \A k \in FieldNames(GroupClass(g)) :
        LET f == Field(GroupClass(g), k)
            v == FieldOf(g, k)
        IN CASE f.annotation = "int" -> v[1] = "int" /\ InRange(f, v)
             [] f.annotation = "float" -> v[1] = "float" /\ InRange(f, v)
             [] f.annotation = "str" -> v[1] = "str"
             [] f.annotation = "CNNNetwork" -> v[1] = "enum" /\ v[2] \in CNNNetwork

(***************************************************************************)
(* C2.  load_with_overrides on a file holding a partial mirror D of the    *)
(* Settings Root, its values within the schema, returns an instance whose  *)
(* fields equal D's values where D gives one and the defaults elsewhere.   *)
(***************************************************************************)
C2_OverridesThenDefaults ==
    (Loaded /\ PartialMirror) =>
      /\ last.raised = "none"
      /\ \A g \in Groups : \A k \in FieldNames(GroupClass(g)) :
            PyEq(FieldOf(g, k), MergedValue(g, k))

\* A load returned on {"object_detection": {"min_object_size": v}}, v not the default.
C2_Witness ==
    /\ Loaded /\ PartialMirror /\ last.raised = "none"
    /\ Given("object_detection", "min_object_size") # Absent
    /\ ~PyEq(Given("object_detection", "min_object_size"), IntV(6))
    /\ FieldOf("object_detection", "cnn_confidence_threshold") = FloatV(5)

(***************************************************************************)
(* C7.  load_with_overrides never returns an instance that violates a      *)
(* field constraint; a merged tree with a value out of range, an invalid   *)
(* enum value or a value of a wrong type makes it fail with a validation   *)
(* error, malformed JSON with a parse error.                               *)
(***************************************************************************)
\* The merged tree is not an object, or a group in it is not one.
BadShape ==
    \/ ~IsDict(Overrides)
    \/ \E g \in Groups \cap Keys(Overrides[2]) : ~IsDict(Lookup(Overrides[2], g))

\* As claimed: a value of another type than declared is rejected.
C7_AsClaimed ==
    /\ last.op = "load" /\ last.before = Malformed => last.raised = "JSONDecodeError"
    /\ Loaded =>
         /\ last.raised = "none" => InstanceValid
         /\ (BadShape \/ \E g \in Groups : \E k \in FieldNames(GroupClass(g)) :
                 ~WithinSchema(Field(GroupClass(g), k), MergedValue(g, k)))
              => last.raised = "ValidationError"

\* A string of digits given for an int or float field is read as that number.
Converted(f, v) ==
    IF f.annotation \in {"int", "float"} /\ v[1] = "str" /\ IsNumericStr(v[2])
    THEN IntV(IntOfStr(v[2]))
    ELSE v

\* Amended: a value is rejected when, after that conversion, it is of another type
\* than declared, out of range or no member of the enum.
C7_Validated ==
    /\ last.op = "load" /\ last.before = Malformed => last.raised = "JSONDecodeError"
    /\ Loaded =>
         /\ last.raised = "none" => InstanceValid
         /\ (BadShape \/ \E g \in Groups : \E k \in FieldNames(GroupClass(g)) :
                 ~WithinSchema(Field(GroupClass(g), k),
                               Converted(Field(GroupClass(g), k), MergedValue(g, k))))
              => last.raised = "ValidationError"

\* A load failed on an override that puts a field's value below its minimum.
C7_Witness ==
    /\ Loaded /\ last.raised = "ValidationError" /\ ~BadShape
    /\ \E g \in Groups : \E k \in FieldNames(GroupClass(g)) :
          /\ OfDeclaredType(Field(GroupClass(g), k), MergedValue(g, k))
          /\ ~InRange(Field(GroupClass(g), k), MergedValue(g, k))

(***************************************************************************)
(* C8.  Given a path where no file exists, load_with_overrides raises      *)
(* nothing and returns the instance of all defaults.                       *)
(***************************************************************************)
PureDefaults ==
    CASE cls = "AppSettings" ->
           Model("AppSettings",
             << <<"object_detection", Model("ObjectDetection",
                   << <<"cnn_network", EnumV("DAN")>>, <<"min_object_size", IntV(6)>>,
                      <<"cnn_confidence_threshold", FloatV(5)>> >>)>>,
                <<"tracker", Model("Tracker",
                   << <<"count_min_seen", IntV(10)>>, <<"count_max_unseen", IntV(20)>> >>)>> >>)
      [] cls = "SystemSettings" ->
           Model("SystemSettings",
             << <<"nmea", Model("NMEA",
                   << <<"ip_address", StrV("127.0.0.1")>>, <<"port", IntV(8080)>> >>)>> >>)

C8_MissingFileGivesDefaults ==
    (last.op = "load" /\ last.arg \in AllPaths /\ fs[last.arg] = Missing) =>
      last.raised = "none" /\ instance = PureDefaults

\* A load was given a path with no file while the default-named file holds
\* overrides that a load accepts.
C8_Witness ==
    /\ last.op = "load" /\ last.arg = "user.json" /\ fs["user.json"] = Missing
    /\ load_with_overrides(cls, fs[DefaultUserFile(cls)]).raised = "none"
    /\ load_with_overrides(cls, fs[DefaultUserFile(cls)]).ret # PureDefaults

(***************************************************************************)
(* C10.  In Update a key of the file that names a field carrying no        *)
(* updatable metadata (the groups object_detection, tracker, nmea, when    *)
(* the file holds no object there) is treated as updatable: the file's     *)
(* value is overwritten with the model's current value.                    *)
(***************************************************************************)
NoMetadata(c, k) == k \in FieldNames(c) /\ Field(c, k).json_schema_extra = <<>>

\* The JSON a value of the instance is written as.
RECURSIVE AsJson(_)
AsJson(v) ==
    CASE v[1] = "model" -> Dict([i \in DOMAIN v[3] |-> <<v[3][i][1], AsJson(v[3][i][2])>>])
      [] v[1] = "enum" -> StrV(v[2])
      [] OTHER -> v

C10_NoMetadataOverwritten ==
    Walked =>
      \A k \in KeysIn(Before, <<>>) :
          (NoMetadata(cls, k) /\ ~IsDict(ValueAt(Before, <<>>, k))) =>
              /\ fs[last.path][1] = "json"
              /\ ValueAt(After, <<>>, k) = AsJson(Lookup(instance[3], k))

(***************************************************************************)
(* C9.  An Update prints as many lines as there are fields marked not      *)
(* updatable whose keys occur in the file where the walk reaches them, and *)
(* all updatable fields in the file are synced all the same.               *)
(***************************************************************************)
ProtectedSkipped ==
    {<<p, k>> \in ReachedLevels \X (KeysAt(cls, 1) \cup KeysAt(cls, 2)) :
        k \in KeysIn(Before, p) /\ Marked(ClassAt(p), k, FALSE)}

C9_OneLinePerProtected ==
    Walked =>
      /\ last.printed = Cardinality(ProtectedSkipped)
      /\ \A p \in ReachedLevels : \A k \in KeysIn(Before, p) :
            Marked(ClassAt(p), k, TRUE) => Synced(p, k)

=============================================================================
